---- MODULE Spec2Model ----
(***************************************************************************)
(* MTicker, the streaming market-data client of src/lib/ticker.ts: the     *)
(* connection manager with its reconnection timer, the subscription        *)
(* registry (subscribedTokens, tokenModes) and the binary frame decoder.   *)
(*                                                                         *)
(* The WebSocket library is the environment.  Every socket the client      *)
(* creates keeps the four handlers bound at creation (ticker.ts 65-68), so *)
(* a socket that is no longer this.ws still reports open, message, error   *)
(* and close to the same client.  An error event is followed by the close  *)
(* event of the same socket.                                               *)
(***************************************************************************)
EXTENDS Integers, Sequences, FiniteSets, TLC

VARIABLES
    config,                  \* config.maxReconnectionAttempts as given: <<>> when omitted
    maxReconnectionAttempts, \* fixed by the constructor
    urlValid,                \* config: FALSE when new WebSocket(socketUrl) throws
    onBroadcastReceived,     \* the callback assigned: the identifiers whose tick makes it throw
    ws,                      \* readyState of the socket this.ws refers to, or "null"
    others,                  \* sockets created earlier and not yet closed, per readyState
    reconnectionAttempts,
    isManualClose,
    timers,                  \* pending setTimeout callbacks of scheduleReconnection
    subscribedTokens,
    tokenModes,
    last,                    \* the last handler run: its name, messages sent, callbacks invoked
    rx,                      \* what the last binary frame did
    failed                   \* history: the attempt counter reached the maximum

vars == <<config, maxReconnectionAttempts, urlValid, onBroadcastReceived, ws, others,
          reconnectionAttempts, isManualClose, timers, subscribedTokens, tokenModes,
          last, rx, failed>>

-----------------------------------------------------------------------------
(* Bounds of the model *)

\* sockets that are not yet closed plus pending reconnect timers
MaxSockets == 2

\* records in one inbound binary frame
MaxRecords == 2

\* values of config.maxReconnectionAttempts; 0 is falsy and gives the default
ConfigAttempts == {0, 1, 2}

\* the option as the application passes it: omitted, or one of the values
Configs == {<<>>} \cup {<<c>> : c \in ConfigAttempts}

\* identifiers the application subscribes and sets modes for: 408065 (segment
\* byte 1) and 265 (segment byte 9, an index)
T1 == 1594 * 256 + 1
T2 == 1 * 256 + 9
RegTokens == {T1, T2}
TokenLists == {<<>>, <<T1>>, <<T2>>, <<T1, T2>>}

\* an argument that is not an array (undefined, a number): a value that is no
\* sequence
NonArray(v) == [i \in {0} |-> v]
NonArrays == {NonArray(0), NonArray(T1)}
TokenArgs == TokenLists \cup NonArrays

Modes == {"ltp", "quote", "full"}

\* identifiers handed to Utils.getDecimalDivisor: every low byte under
\* several upper parts, up to 2^31 - 1
UpperParts == {0, 1, 1594, 8388607}
Identifiers == {h * 256 + s : h \in UpperParts, s \in 0..255}

\* Inbound text frames: text that is not JSON, the JSON text null, and JSON
\* objects with or without a type and a data member
Types == {"order", "trade", "tick", "undefined"}
Datas == {"update", "undefined"}
Texts ==
    {[syntax |-> "invalid", type |-> "undefined", data |-> "undefined"],
     [syntax |-> "null", type |-> "undefined", data |-> "undefined"]}
    \cup [syntax : {"object"}, type : Types, data : Datas]

\* Inbound binary frames.  A frame is described by its records (declared
\* length and identifier) and by the number of bytes cut from its end; the
\* header count is the number of records.
Lens == {0, 5, 8, 28, 32, 44, 184, 200}
Shapes == [len : Lens, tok : RegTokens]
Followers == {[len |-> 8, tok |-> T1], [len |-> 184, tok |-> T2]}
Cuts == {0, 1, 9, 12, 40, 150}

RecSeqs ==
    UNION {{r \in [1..n -> Shapes] : \A i \in 2..n : r[i] \in Followers} :
              n \in 0..MaxRecords}

Frames == [recs : RecSeqs, cut : Cuts]

\* onBroadcastReceived as the application assigns it: the callback throws
\* for the ticks of the identifiers in the set, and returns for the others
Callbacks == SUBSET RegTokens

\* the frames the connection specification delivers
ProbeFrames ==
    {f \in Frames : f.cut = 0 /\ f.recs \in
        {<<[len |-> 32, tok |-> T2]>>, <<[len |-> 200, tok |-> T1]>>}}

U16(n) == <<n \div 256, n % 256>>

U32(n) == <<n \div 16777216, (n \div 65536) % 256, (n \div 256) % 256, n % 256>>

\* byte q (from 0) of the payload of the k-th record: the identifier, then
\* for every 4-byte field a value that tells the field and the record; the
\* 8-byte record that comes first in a frame carries the raw price 250050
PayloadByte(rec, k, q) ==
    IF q < 4 THEN U32(rec.tok)[q + 1]
    ELSE IF rec.len = 8 /\ k = 1 THEN U32(250050)[q - 3]
    ELSE IF q % 4 = 0 THEN 0
    ELSE IF q % 4 = 1 THEN ((k + q \div 4) % 7) + 1
    ELSE IF q % 4 = 2 THEN q \div 4
    ELSE (3 * q + k) % 100

Payload(rec, k) == [q \in 1..rec.len |-> PayloadByte(rec, k, q - 1)]

RECURSIVE Records(_, _)
Records(recs, k) ==
    IF k > Len(recs) THEN <<>>
    ELSE U16(recs[k].len) \o Payload(recs[k], k) \o Records(recs, k + 1)

Encode(f) ==
    LET whole == U16(Len(f.recs)) \o Records(f.recs, 1)
    IN  SubSeq(whole, 1, IF f.cut >= Len(whole) THEN 0 ELSE Len(whole) - f.cut)

-----------------------------------------------------------------------------
(* Program constants *)

DefaultMaxReconnectionAttempts == 5

LiveStates == {"connecting", "open", "closing", "errored", "aborted"}

NoMode == "none"

-----------------------------------------------------------------------------
(* The client as a value: the fields the handlers read and write, with     *)
(* the messages sent (out) and the callbacks invoked (cb) by the handler   *)
(* that is running.  ws is the readyState of the socket this.ws refers to  *)
(* ("null" when this.ws is null); others counts, per readyState, the       *)
(* sockets the client created earlier, no longer refers to, and that have  *)
(* not closed yet.                                                         *)

Self ==
    [ws |-> ws, others |-> others,
     reconnectionAttempts |-> reconnectionAttempts,
     isManualClose |-> isManualClose, timers |-> timers,
     subscribedTokens |-> subscribedTokens, tokenModes |-> tokenModes,
     out |-> <<>>, cb |-> <<>>]

Call(f, args) == [f |-> f, a |-> args]

Msg(a, shape, mode, v) == [a |-> a, shape |-> shape, mode |-> mode, v |-> v]

Range(s) == {s[i] : i \in DOMAIN s}

Live(p) ==
    (IF p.ws \in LiveStates THEN 1 ELSE 0) + p.others["connecting"] + p.others["open"]
        + p.others["closing"] + p.others["errored"] + p.others["aborted"]

\* a socket the client drops its reference to stays alive until its close event
Retire(bag, st) == IF st \in LiveStates THEN [bag EXCEPT ![st] = @ + 1] ELSE bag

\* this.ws && this.ws.readyState === WebSocket.OPEN
wsOpen(p) == p.ws = "open"

isConnected(p) == p.ws # "null" /\ p.ws = "open"

\* scheduleReconnection without the increment of the attempt counter
scheduleReconnection_NoCount(p) ==
    IF p.reconnectionAttempts < maxReconnectionAttempts /\ ~p.isManualClose
    THEN [p EXCEPT !.cb = Append(@, Call("onReconnecting",
                                <<p.reconnectionAttempts + 1, maxReconnectionAttempts>>)),
                   !.timers = @ + 1]
    ELSE p

\* scheduleReconnection that allows one attempt more
scheduleReconnection_OneMore(p) ==
    IF p.reconnectionAttempts <= maxReconnectionAttempts /\ ~p.isManualClose
    THEN [p EXCEPT !.reconnectionAttempts = @ + 1,
                   !.cb = Append(@, Call("onReconnecting",
                                <<p.reconnectionAttempts + 1, maxReconnectionAttempts>>)),
                   !.timers = @ + 1]
    ELSE p

scheduleReconnection(p) ==
    IF p.reconnectionAttempts < maxReconnectionAttempts /\ ~p.isManualClose
    THEN [p EXCEPT !.reconnectionAttempts = @ + 1,
                   !.cb = Append(@, Call("onReconnecting",
                                <<p.reconnectionAttempts + 1, maxReconnectionAttempts>>)),
                   !.timers = @ + 1]
    ELSE p

createWebSocketConnection(p) ==
    IF urlValid
    THEN [p EXCEPT !.others = Retire(@, p.ws), !.ws = "connecting"]
    ELSE scheduleReconnection(p)

\* connect that leaves the manual-close flag as it is
connect_KeepsFlag(p) ==
    IF wsOpen(p) THEN p
    ELSE createWebSocketConnection(p)

connect(p) ==
    IF wsOpen(p) THEN p
    ELSE createWebSocketConnection([p EXCEPT !.isManualClose = FALSE])

\* handleOpen that logs in by itself
handleOpen_SendsLogin(p) ==
    [p EXCEPT !.reconnectionAttempts = 0, !.cb = Append(@, Call("onConnect", <<>>)),
              !.out = Append(@, Msg("LOGIN", "text", "-", <<>>))]

handleOpen(p) ==
    [p EXCEPT !.reconnectionAttempts = 0, !.cb = Append(@, Call("onConnect", <<>>))]

handleError(p) ==
    scheduleReconnection([p EXCEPT !.cb = Append(@, Call("onError", <<>>))])

\* handleClose that forgets the subscriptions
handleClose_ClearsTokens(p) ==
    LET q == [p EXCEPT !.cb = Append(@, Call("onClose", <<>>)),
                       !.subscribedTokens = {}]
    IN  IF ~q.isManualClose THEN scheduleReconnection(q) ELSE q

handleClose(p) ==
    LET q == [p EXCEPT !.cb = Append(@, Call("onClose", <<>>))]
    IN  IF ~q.isManualClose THEN scheduleReconnection(q) ELSE q

\* the arrow function handed to setTimeout in scheduleReconnection
\* the timer callback without its check of the manual-close flag
reconnectTimer_NoCheck(p) == createWebSocketConnection(p)

reconnectTimer(p) ==
    IF ~p.isManualClose THEN createWebSocketConnection(p) ELSE p

\* WebSocket.close(): a socket not yet closed starts closing
wsClose(st) == IF st \in {"connecting", "open"} THEN "closing" ELSE st

\* disconnect that keeps the attempt counter
disconnect_KeepsCount(p) ==
    LET q == [p EXCEPT !.isManualClose = TRUE]
        r == IF q.ws # "null"
             THEN [q EXCEPT !.others = Retire(@, wsClose(q.ws)), !.ws = "null"]
             ELSE q
    IN  [r EXCEPT !.subscribedTokens = {}]

\* disconnect that closes the socket and keeps its reference to it
disconnect_KeepsSocket(p) ==
    LET q == [p EXCEPT !.isManualClose = TRUE]
        r == IF q.ws # "null" THEN [q EXCEPT !.ws = wsClose(q.ws)] ELSE q
    IN  [r EXCEPT !.subscribedTokens = {}, !.reconnectionAttempts = 0]

disconnect(p) ==
    LET q == [p EXCEPT !.isManualClose = TRUE]
        r == IF q.ws # "null"
             THEN [q EXCEPT !.others = Retire(@, wsClose(q.ws)), !.ws = "null"]
             ELSE q
    IN  [r EXCEPT !.subscribedTokens = {}, !.reconnectionAttempts = 0]

\* sendSubscriptionMessage without the check of the socket
sendSubscriptionMessage_Unguarded(p, action, tokens) ==
    [p EXCEPT !.out = Append(@, Msg(action, "list", "-", tokens))]

sendSubscriptionMessage(p, action, tokens) ==
    IF wsOpen(p)
    THEN [p EXCEPT !.out = Append(@, Msg(action, "list", "-", tokens))]
    ELSE p

\* Array.from(this.subscribedTokens), identifiers in ascending order
RECURSIVE SetToSeq(_)
SetToSeq(S) ==
    IF S = {} THEN <<>>
    ELSE LET m == CHOOSE x \in S : \A y \in S : x <= y
         IN  <<m>> \o SetToSeq(S \ {m})

\* resubscribeTokens that sends nothing
resubscribeTokens_Silent(p) == p

resubscribeTokens(p) ==
    IF Cardinality(p.subscribedTokens) > 0
    THEN sendSubscriptionMessage(p, "subscribe", SetToSeq(p.subscribedTokens))
    ELSE p

\* sendLoginAfterConnect that also replays the mode of the first identifier
\* that has one
sendLoginAfterConnect_ReplaysModes(p) ==
    LET q == IF wsOpen(p)
             THEN resubscribeTokens(
                    [p EXCEPT !.out = Append(@, Msg("LOGIN", "text", "-", <<>>))])
             ELSE p
        set == {t \in RegTokens : p.tokenModes[t] # NoMode}
    IN  IF wsOpen(p) /\ set # {}
        THEN LET t == CHOOSE x \in set : TRUE
             IN  [q EXCEPT !.out = Append(@, Msg("mode", "pair", p.tokenModes[t], <<t>>))]
        ELSE q

sendLoginAfterConnect(p) ==
    IF wsOpen(p)
    THEN resubscribeTokens([p EXCEPT !.out = Append(@, Msg("LOGIN", "text", "-", <<>>))])
    ELSE p

\* Array.isArray
isArray(v) == DOMAIN v = 1..Cardinality(DOMAIN v)

\* subscribe without the check of its argument
subscribe_NoCheck(p, tokens) ==
    sendSubscriptionMessage(
        [p EXCEPT !.subscribedTokens = @ \cup Range(tokens)], "subscribe", tokens)

subscribe(p, tokens) ==
    IF ~isArray(tokens) \/ Len(tokens) = 0 THEN p
    ELSE sendSubscriptionMessage(
            [p EXCEPT !.subscribedTokens = @ \cup Range(tokens)], "subscribe", tokens)

\* unsubscribe that also forgets the modes of the identifiers
unsubscribe_DropsMode(p, tokens) ==
    IF ~isArray(tokens) \/ Len(tokens) = 0 THEN p
    ELSE sendSubscriptionMessage(
            [p EXCEPT !.subscribedTokens = @ \ Range(tokens),
                      !.tokenModes = [t \in RegTokens |->
                          IF t \in Range(tokens) THEN NoMode ELSE @[t]]],
            "unsubscribe", tokens)

unsubscribe(p, tokens) ==
    IF ~isArray(tokens) \/ Len(tokens) = 0 THEN p
    ELSE sendSubscriptionMessage(
            [p EXCEPT !.subscribedTokens = @ \ Range(tokens)], "unsubscribe", tokens)

\* setMode that records the mode only when it can send it
setMode_OnlyWhenOpen(p, mode, tokens) ==
    IF wsOpen(p)
    THEN [p EXCEPT !.tokenModes =
                      [t \in RegTokens |-> IF t \in Range(tokens) THEN mode ELSE @[t]],
                   !.out = Append(@, Msg("mode", "pair", mode, tokens))]
    ELSE p

setMode(p, mode, tokens) ==
    LET q == [p EXCEPT !.tokenModes =
                  [t \in RegTokens |-> IF t \in Range(tokens) THEN mode ELSE @[t]]]
    IN  IF wsOpen(q)
        THEN [q EXCEPT !.out = Append(@, Msg("mode", "pair", mode, tokens))]
        ELSE q

\* subscribeWithMode that records the mode it sends
subscribeWithMode_WritesModes(p, mode, tokens) ==
    IF wsOpen(p)
    THEN [p EXCEPT !.out = Append(@, Msg("subscribe", "map", mode, tokens)),
                   !.subscribedTokens = @ \cup Range(tokens),
                   !.tokenModes = [t \in DOMAIN @ |->
                                     IF t \in Range(tokens) THEN mode ELSE @[t]]]
    ELSE p

subscribeWithMode(p, mode, tokens) ==
    IF wsOpen(p)
    THEN [p EXCEPT !.out = Append(@, Msg("subscribe", "map", mode, tokens)),
                   !.subscribedTokens = @ \cup Range(tokens)]
    ELSE p

getTokenMode(modes, token) ==
    IF token \in RegTokens /\ modes[token] # NoMode THEN modes[token] ELSE "full"

-----------------------------------------------------------------------------
(* The binary frame decoder.  A frame is its sequence of bytes; byte       *)
(* offset o of the ArrayBuffer is element o + 1.  A DataView read that     *)
(* does not fit in the buffer throws a RangeError.                         *)

RangeErr == -1

getUint16(data, off) ==
    IF off + 2 > Len(data) THEN RangeErr
    ELSE data[off + 1] * 256 + data[off + 2]

getUint32(data, off) ==
    IF off + 4 > Len(data) THEN RangeErr
    ELSE data[off + 1] * 16777216 + data[off + 2] * 65536 + data[off + 3] * 256
            + data[off + 4]

Thrown == [error |-> "RangeError"]

Null == [null |-> TRUE]

\* an object literal whose field reads are raw: it throws if any read threw
Guarded(raw, tick) ==
    IF \E i \in DOMAIN raw : raw[i] = RangeErr THEN Thrown ELSE tick

\* getDecimalDivisor that scales segment 6 like the others
getDecimalDivisor_NoCommodity(instrumentToken) ==
    LET segment == instrumentToken % 256
    IN  IF segment = 3 THEN 10000000
        ELSE 100

\* Utils.getDecimalDivisor
getDecimalDivisor(instrumentToken) ==
    LET segment == instrumentToken % 256
    IN  IF segment = 3 THEN 10000000
        ELSE IF segment = 6 THEN 10000
        ELSE 100

\* raw / divisor, kept as the exact quotient; the number 0 written into a
\* price field is Zero
Div(raw, divisor) == [num |-> raw, den |-> divisor]

\* a - b for two quotients over the same divisor
Minus(a, b) == [num |-> a.num - b.num, den |-> a.den]

Zero == [num |-> 0, den |-> 1]

\* Utils.unixToDateTime: new Date(baseDate + ts * 1000), kept in seconds
BaseDateSeconds == 315532800

\* unixToDateTime that counts from 1970-01-01
unixToDateTime_UnixEpoch(ts) == [epochSeconds |-> ts]

unixToDateTime(ts) == [epochSeconds |-> BaseDateSeconds + ts]

\* every instrument tradable
Tradable_Always(instrumentToken) == TRUE

Tradable(instrumentToken) == (instrumentToken % 256) # 9

\* readLTPBroadcast that leaves the price unscaled
readLTPBroadcast_Unscaled(data, offset) ==
    LET instrumentToken == getUint32(data, offset)
        lp == getUint32(data, offset + 4)
    IN  Guarded(<<instrumentToken, lp>>,
            [InstrumentToken |-> instrumentToken, Mode |-> "ltp",
             LastPrice |-> Div(lp, 1), Tradable |-> Tradable(instrumentToken)])

readLTPBroadcast(data, offset) ==
    LET instrumentToken == getUint32(data, offset)
        divisor == getDecimalDivisor(instrumentToken)
        lp == getUint32(data, offset + 4)
    IN  Guarded(<<instrumentToken, lp>>,
            [InstrumentToken |-> instrumentToken, Mode |-> "ltp",
             LastPrice |-> Div(lp, divisor), Tradable |-> Tradable(instrumentToken)])

readQuoteIndex(data, offset) ==
    LET instrumentToken == getUint32(data, offset)
        divisor == getDecimalDivisor(instrumentToken)
        r == [k \in 1..6 |-> getUint32(data, offset + 4 * k)]
    IN  Guarded(<<instrumentToken>> \o r,
            [Mode |-> "quote", InstrumentToken |-> instrumentToken,
             Tradable |-> Tradable(instrumentToken),
             LastPrice |-> Div(r[1], divisor), High |-> Div(r[2], divisor),
             Low |-> Div(r[3], divisor), Open |-> Div(r[4], divisor),
             Close |-> Div(r[5], divisor), Change |-> Div(r[6], divisor)])

readFullIndex(data, offset, modes) ==
    LET instrumentToken == getUint32(data, offset)
        requestedMode == getTokenMode(modes, instrumentToken)
        divisor == getDecimalDivisor(instrumentToken)
        lastPrice == getUint32(data, offset + 4)
        high == getUint32(data, offset + 8)
        low == getUint32(data, offset + 12)
        open == getUint32(data, offset + 16)
        close == getUint32(data, offset + 20)
        time == getUint32(data, offset + 28)
        quote == [Mode |-> "quote", InstrumentToken |-> instrumentToken,
                  Tradable |-> Tradable(instrumentToken),
                  LastPrice |-> Div(lastPrice, divisor), High |-> Div(high, divisor),
                  Low |-> Div(low, divisor), Open |-> Div(open, divisor),
                  Close |-> Div(close, divisor),
                  Change |-> Minus(Div(lastPrice, divisor), Div(close, divisor))]
    IN  Guarded(<<instrumentToken, lastPrice, high, low, open, close, time>>,
            IF requestedMode = "quote" THEN quote
            ELSE IF requestedMode = "ltp"
            THEN [Mode |-> "ltp", InstrumentToken |-> instrumentToken,
                  Tradable |-> Tradable(instrumentToken),
                  LastPrice |-> Div(lastPrice, divisor)]
            ELSE [Mode |-> "full", InstrumentToken |-> instrumentToken,
                  Tradable |-> Tradable(instrumentToken),
                  LastPrice |-> Div(lastPrice, divisor), High |-> Div(high, divisor),
                  Low |-> Div(low, divisor), Open |-> Div(open, divisor),
                  Close |-> Div(close, divisor),
                  Change |-> Minus(Div(lastPrice, divisor), Div(close, divisor)),
                  Timestamp |-> unixToDateTime(time)])

\* the ten fields after the identifier that readQuote and readFullFeed share
QuoteFields(instrumentToken, r) ==
    LET divisor == getDecimalDivisor(instrumentToken)
    IN  [InstrumentToken |-> instrumentToken,
         Tradable |-> Tradable(instrumentToken),
         LastPrice |-> Div(r[1], divisor), LastQuantity |-> r[2],
         AveragePrice |-> Div(r[3], divisor), Volume |-> r[4],
         BuyQuantity |-> r[5], SellQuantity |-> r[6],
         Open |-> Div(r[7], divisor), High |-> Div(r[8], divisor),
         Low |-> Div(r[9], divisor), Close |-> Div(r[10], divisor)]

\* f with the fields of g added
Plus(f, g) ==
    [k \in DOMAIN f \cup DOMAIN g |-> IF k \in DOMAIN g THEN g[k] ELSE f[k]]

\* readQuote that tags its tick full
readQuote_TagsFull(data, offset) ==
    LET instrumentToken == getUint32(data, offset)
        r == [k \in 1..10 |-> getUint32(data, offset + 4 * k)]
    IN  Guarded(<<instrumentToken>> \o r,
            Plus(QuoteFields(instrumentToken, r), [Mode |-> "full"]))

readQuote(data, offset) ==
    LET instrumentToken == getUint32(data, offset)
        r == [k \in 1..10 |-> getUint32(data, offset + 4 * k)]
    IN  Guarded(<<instrumentToken>> \o r,
            Plus(QuoteFields(instrumentToken, r), [Mode |-> "quote"]))

\* createQuoteFromPacket that also carries the open interest at byte 48
createQuoteFromPacket_WithOI(data, offset, length) ==
    LET instrumentToken == getUint32(data, offset)
        divisor == getDecimalDivisor(instrumentToken)
        lp == getUint32(data, offset + 4)
        oi == getUint32(data, offset + 48)
        r == [k \in 2..10 |->
                IF length >= 4 * k + 4 THEN getUint32(data, offset + 4 * k) ELSE 0]
        price(k) == IF length >= 4 * k + 4 THEN Div(r[k], divisor) ELSE Zero
    IN  Guarded(<<instrumentToken, lp, oi>> \o [k \in 1..9 |-> r[k + 1]],
            [Mode |-> "quote", InstrumentToken |-> instrumentToken,
             Tradable |-> Tradable(instrumentToken),
             LastPrice |-> Div(lp, divisor), LastQuantity |-> r[2],
             AveragePrice |-> price(3), Volume |-> r[4],
             BuyQuantity |-> r[5], SellQuantity |-> r[6],
             Open |-> price(7), High |-> price(8),
             Low |-> price(9), Close |-> price(10), OI |-> oi])

createQuoteFromPacket(data, offset, length) ==
    LET instrumentToken == getUint32(data, offset)
        divisor == getDecimalDivisor(instrumentToken)
        lp == getUint32(data, offset + 4)
        \* length >= 4 * k + 4 ? view.getUint32(offset + 4 * k) : 0
        r == [k \in 2..10 |->
                IF length >= 4 * k + 4 THEN getUint32(data, offset + 4 * k) ELSE 0]
        price(k) == IF length >= 4 * k + 4 THEN Div(r[k], divisor) ELSE Zero
    IN  Guarded(<<instrumentToken, lp>> \o [k \in 1..9 |-> r[k + 1]],
            [Mode |-> "quote", InstrumentToken |-> instrumentToken,
             Tradable |-> Tradable(instrumentToken),
             LastPrice |-> Div(lp, divisor), LastQuantity |-> r[2],
             AveragePrice |-> price(3), Volume |-> r[4],
             BuyQuantity |-> r[5], SellQuantity |-> r[6],
             Open |-> price(7), High |-> price(8),
             Low |-> price(9), Close |-> price(10)])

\* createLTPFromPacket that also reads the close price
createLTPFromPacket_ReadsClose(data, offset, instrumentToken) ==
    LET divisor == getDecimalDivisor(instrumentToken)
        lp == getUint32(data, offset + 4)
    IN  Guarded(<<lp, getUint32(data, offset + 40)>>,
            [Mode |-> "ltp", InstrumentToken |-> instrumentToken,
             Tradable |-> Tradable(instrumentToken),
             LastPrice |-> Div(lp, divisor), LastQuantity |-> 0,
             AveragePrice |-> Zero, Volume |-> 0, BuyQuantity |-> 0,
             SellQuantity |-> 0, Open |-> Zero, High |-> Zero, Low |-> Zero,
             Close |-> Zero, Change |-> Zero, LastTradeTime |-> Null, OI |-> 0,
             OIDayHigh |-> 0, OIDayLow |-> 0, Timestamp |-> Null])

createLTPFromPacket(data, offset, instrumentToken) ==
    LET divisor == getDecimalDivisor(instrumentToken)
        lp == getUint32(data, offset + 4)
    IN  Guarded(<<lp>>,
            [Mode |-> "ltp", InstrumentToken |-> instrumentToken,
             Tradable |-> Tradable(instrumentToken),
             LastPrice |-> Div(lp, divisor), LastQuantity |-> 0,
             AveragePrice |-> Zero, Volume |-> 0, BuyQuantity |-> 0,
             SellQuantity |-> 0, Open |-> Zero, High |-> Zero, Low |-> Zero,
             Close |-> Zero, Change |-> Zero, LastTradeTime |-> Null, OI |-> 0,
             OIDayHigh |-> 0, OIDayLow |-> 0, Timestamp |-> Null])

\* one depth entry of readFullFeed, 12 bytes from o
DepthEntry(data, o, divisor) ==
    [Quantity |-> getUint32(data, o), Price |-> Div(getUint32(data, o + 4), divisor),
     Orders |-> getUint16(data, o + 8)]

DepthRaw(data, o) == <<getUint32(data, o), getUint32(data, o + 4), getUint16(data, o + 8)>>

\* length is not read: the same 200 bytes are read for a 184-byte record
readFullFeed(data, offset, length) ==
    LET instrumentToken == getUint32(data, offset)
        divisor == getDecimalDivisor(instrumentToken)
        r == [k \in 1..15 |-> getUint32(data, offset + 4 * k)]
        bidOffset == offset + 64
        offerOffset == bidOffset + 5 * 12
        tailOffset == offerOffset + 5 * 12
        bids == [i \in 1..5 |-> DepthEntry(data, bidOffset + 12 * (i - 1), divisor)]
        offers == [i \in 1..5 |-> DepthEntry(data, offerOffset + 12 * (i - 1), divisor)]
        tail == [k \in 1..4 |-> getUint32(data, tailOffset + 4 * (k - 1))]
        depthRaw == [i \in 1..30 |->
                        DepthRaw(data, bidOffset + 12 * ((i - 1) \div 3))[((i - 1) % 3) + 1]]
    IN  Guarded(<<instrumentToken>> \o r \o depthRaw \o tail,
            Plus(QuoteFields(instrumentToken, r),
                 [Mode |-> "full", Change |-> Zero,
                  LastTradeTime |-> unixToDateTime(r[11]), OI |-> r[12],
                  OIDayHigh |-> r[13], OIDayLow |-> r[14],
                  Timestamp |-> unixToDateTime(r[15]),
                  Bids |-> bids, Offers |-> offers,
                  UpperCircuit |-> Div(tail[1], divisor),
                  LowerCircuit |-> Div(tail[2], divisor),
                  YearHigh |-> Div(tail[3], divisor),
                  YearLow |-> Div(tail[4], divisor)]))

\* readModeBasedData without the ltp branch
readModeBasedData_NoLtp(data, offset, length, modes) ==
    LET instrumentToken == getUint32(data, offset)
        requestedMode == getTokenMode(modes, instrumentToken)
    IN  IF instrumentToken = RangeErr THEN Thrown
        ELSE IF requestedMode = "quote" THEN createQuoteFromPacket(data, offset, length)
        ELSE IF length = 44 THEN readQuote(data, offset)
        ELSE readFullFeed(data, offset, length)

readModeBasedData(data, offset, length, modes) ==
    LET instrumentToken == getUint32(data, offset)
        requestedMode == getTokenMode(modes, instrumentToken)
    IN  IF instrumentToken = RangeErr THEN Thrown
        ELSE IF requestedMode = "quote" THEN createQuoteFromPacket(data, offset, length)
        ELSE IF requestedMode = "ltp" THEN createLTPFromPacket(data, offset, instrumentToken)
        ELSE IF length = 44 THEN readQuote(data, offset)
        ELSE readFullFeed(data, offset, length)

\* parseTickData that reads a record of any other length as a last-price
\* broadcast
parseTickData_ReadsAny(data, offset, length, modes) ==
    LET r == IF length = 8 THEN readLTPBroadcast(data, offset)
             ELSE IF length = 28 THEN readQuoteIndex(data, offset)
             ELSE IF length = 32 THEN readFullIndex(data, offset, modes)
             ELSE IF length \in {44, 184, 200}
             THEN readModeBasedData(data, offset, length, modes)
             ELSE readLTPBroadcast(data, offset)
    IN  IF r = Thrown THEN Null ELSE r

parseTickData(data, offset, length, modes) ==
    LET r == IF length = 8 THEN readLTPBroadcast(data, offset)
             ELSE IF length = 28 THEN readQuoteIndex(data, offset)
             ELSE IF length = 32 THEN readFullIndex(data, offset, modes)
             ELSE IF length \in {44, 184, 200}
             THEN readModeBasedData(data, offset, length, modes)
             ELSE Null
    IN  IF r = Thrown THEN Null ELSE r

\* the for loop of parseBinaryMessage from iteration i at offset; acc holds
\* the ticks handed to onBroadcastReceived (calls), every iteration's record
\* (iter) and whether an exception left the loop (threw)
RECURSIVE parseLoop(_, _, _, _, _, _)
\* the loop ended by a record of declared length 0
parseLoop_EndsAtEmpty(data, modes, count, i, offset, acc) ==
    IF i >= count \/ offset >= Len(data) THEN acc
    ELSE LET length == getUint16(data, offset)
             tick == parseTickData(data, offset + 2, length, modes)
             read == [acc EXCEPT
                        !.calls = IF tick # Null THEN Append(@, tick) ELSE @,
                        !.iter = Append(@, [off |-> offset + 2, len |-> length,
                                            tick |-> tick])]
         IN  IF length = RangeErr THEN [acc EXCEPT !.threw = TRUE]
             ELSE IF length = 0 THEN read
             ELSE parseLoop(data, modes, count, i + 1, offset + 2 + length, read)

parseLoop(data, modes, count, i, offset, acc) ==
    IF i >= count \/ offset >= Len(data) THEN acc
    ELSE LET length == getUint16(data, offset)
             tick == parseTickData(data, offset + 2, length, modes)
             read == [acc EXCEPT
                        !.calls = IF tick # Null THEN Append(@, tick) ELSE @,
                        !.iter = Append(@, [off |-> offset + 2, len |-> length,
                                            tick |-> tick])]
         IN  IF length = RangeErr THEN [acc EXCEPT !.threw = TRUE]
             \* this.onBroadcastReceived(tick) threw: the exception leaves the loop
             ELSE IF tick # Null /\ tick.InstrumentToken \in onBroadcastReceived
             THEN [read EXCEPT !.threw = TRUE]
             ELSE parseLoop(data, modes, count, i + 1, offset + 2 + length, read)

\* parseBinaryMessage that hands over the ticks of a frame last record first
parseBinaryMessage_Reversed(data, modes) ==
    LET count == getUint16(data, 0)
        none == [calls |-> <<>>, iter |-> <<>>, threw |-> FALSE]
        r == IF count = RangeErr THEN [none EXCEPT !.threw = TRUE]
             ELSE parseLoop(data, modes, count, 0, 2, none)
    IN  [r EXCEPT !.calls = [j \in 1..Len(r.calls) |-> r.calls[Len(r.calls) + 1 - j]]]

parseBinaryMessage(data, modes) ==
    LET count == getUint16(data, 0)
        none == [calls |-> <<>>, iter |-> <<>>, threw |-> FALSE]
    IN  IF count = RangeErr THEN [none EXCEPT !.threw = TRUE]
        ELSE parseLoop(data, modes, count, 0, 2, none)

\* handleBinaryMessage without its try and catch
handleBinaryMessage_NoCatch(data, modes) ==
    LET r == parseBinaryMessage(data, modes)
    IN  [calls |-> r.calls, iter |-> r.iter, escaped |-> r.threw]

\* try { parseBinaryMessage } catch { log }: escaped tells whether the
\* exception left the handler
handleBinaryMessage(data, modes) ==
    LET r == parseBinaryMessage(data, modes)
    IN  [calls |-> r.calls, iter |-> r.iter, escaped |-> FALSE]

\* JSON.parse: a SyntaxError for text that is not JSON, else the value
SyntaxErr == [error |-> "SyntaxError"]

JsNull == [null |-> TRUE]

JSONparse(data) ==
    IF data.syntax = "invalid" THEN SyntaxErr
    ELSE IF data.syntax = "null" THEN JsNull
    ELSE [type |-> data.type, data |-> data.data]

\* handleTextMessage without its try and catch
handleTextMessage_NoCatch(data) ==
    LET messageDict == JSONparse(data)
    IN  IF messageDict \in {SyntaxErr, JsNull}
        THEN [calls |-> <<>>, escaped |-> TRUE]
        ELSE IF messageDict.type \in {"order", "trade"}
        THEN [calls |-> <<Call("onOrderTradeReceived", <<messageDict.data>>)>>,
              escaped |-> FALSE]
        ELSE [calls |-> <<>>, escaped |-> FALSE]

\* try { JSON.parse; messageDict.type; onOrderTradeReceived } catch { log }:
\* reading .type of null throws a TypeError inside the try
handleTextMessage(data) ==
    LET messageDict == JSONparse(data)
    IN  IF messageDict \in {SyntaxErr, JsNull}
        THEN [calls |-> <<>>, escaped |-> FALSE]
        ELSE IF messageDict.type \in {"order", "trade"}
        THEN [calls |-> <<Call("onOrderTradeReceived", <<messageDict.data>>)>>,
              escaped |-> FALSE]
        ELSE [calls |-> <<>>, escaped |-> FALSE]

-----------------------------------------------------------------------------
(* Actions *)

NoRx == [calls |-> <<>>, iter |-> <<>>, escaped |-> FALSE,
         frame |-> [recs |-> <<>>, cut |-> 0]]

\* the model keeps live sockets plus pending timers within MaxSockets
Bounded(q) == Live(q) + q.timers <= MaxSockets

\* the attempt counter reached the maximum in this handler
Exhausts(q) ==
    /\ q.reconnectionAttempts = maxReconnectionAttempts
    /\ \E i \in DOMAIN q.cb : q.cb[i].f = "onReconnecting"

Commit(name, src, q, f) ==
    /\ Bounded(q)
    /\ ws' = q.ws
    /\ others' = q.others
    /\ reconnectionAttempts' = q.reconnectionAttempts
    /\ isManualClose' = q.isManualClose
    /\ timers' = q.timers
    /\ subscribedTokens' = q.subscribedTokens
    /\ tokenModes' = q.tokenModes
    /\ last' = [name |-> name, src |-> src, out |-> q.out, cb |-> q.cb]
    /\ rx' = NoRx
    /\ failed' = f
    /\ UNCHANGED <<config, maxReconnectionAttempts, urlValid, onBroadcastReceived>>

\* the sockets an event can come from: this.ws, or an earlier socket by readyState
Sources == {"ws"} \cup LiveStates

\* the readyState of the socket an event comes from, "closed" when there is none
StateOf(p, who) ==
    IF who = "ws" THEN (IF p.ws \in LiveStates THEN p.ws ELSE "closed")
    ELSE IF p.others[who] > 0 THEN who ELSE "closed"

\* the library moves that socket to readyState to before it calls the handler
Moved(p, who, to) ==
    IF who = "ws" THEN [p EXCEPT !.ws = to]
    ELSE [p EXCEPT !.others = Retire([@ EXCEPT ![who] = @ - 1], to)]

Connect ==
    /\ Live(Self) < MaxSockets
    /\ Commit("connect", "-", connect(Self),
              IF wsOpen(Self) THEN failed ELSE Exhausts(connect(Self)))

Disconnect ==
    /\ Commit("disconnect", "-", disconnect(Self), FALSE)

SockOpen ==
    \E who \in Sources :
        /\ StateOf(Self, who) = "connecting"
        /\ Commit("open", "connecting", handleOpen(Moved(Self, who, "open")),
                  IF who = "ws" THEN FALSE ELSE failed)

SockError ==
    \E who \in Sources :
        /\ StateOf(Self, who) \in {"connecting", "open", "closing"}
        /\ LET from == StateOf(Self, who)
               q == handleError(Moved(Self, who,
                        IF from = "closing" THEN "aborted" ELSE "errored"))
           IN  Commit("error", from, q, failed \/ Exhausts(q))

SockClose ==
    \E who \in Sources :
        /\ StateOf(Self, who) # "closed"
        /\ LET q == handleClose(Moved(Self, who, "closed"))
           IN  Commit("close", StateOf(Self, who), q, failed \/ Exhausts(q))

TimerFire ==
    /\ timers > 0
    /\ LET q == reconnectTimer([Self EXCEPT !.timers = @ - 1])
       IN  Commit("timer", "-", q, failed \/ Exhausts(q))

SendLoginAfterConnect ==
    /\ Commit("sendLoginAfterConnect", "-", sendLoginAfterConnect(Self), failed)

Subscribe ==
    \E tokens \in TokenArgs :
        /\ Commit("subscribe", "-", subscribe(Self, tokens), failed)

Unsubscribe ==
    \E tokens \in TokenArgs :
        /\ Commit("unsubscribe", "-", unsubscribe(Self, tokens), failed)

SetMode ==
    \E mode \in Modes, tokens \in TokenLists :
        /\ Commit("setMode", "-", setMode(Self, mode, tokens), failed)

SubscribeWithMode ==
    \E mode \in Modes, tokens \in TokenLists :
        /\ Commit("subscribeWithMode", "-", subscribeWithMode(Self, mode, tokens), failed)

\* a binary message event of an open socket.  rx holds one frame's record:
\* the frame is taken once another handler has run since the previous frame
\* (any call does, and subscribe with an empty list changes nothing else)
BinaryMessage(f) ==
    /\ \E who \in Sources : StateOf(Self, who) = "open"
    /\ rx = NoRx
    /\ rx' = Plus(handleBinaryMessage(Encode(f), tokenModes), [frame |-> f])
    /\ last' = [name |-> "message", src |-> "open", out |-> <<>>, cb |-> <<>>]
    /\ UNCHANGED <<config, maxReconnectionAttempts, urlValid, onBroadcastReceived, ws, others,
                   reconnectionAttempts,
                   isManualClose, timers, subscribedTokens, tokenModes, failed>>

SockMessage == \E f \in ProbeFrames : BinaryMessage(f)

\* a text message event of an open socket: handleMessage with a string
SockText ==
    \E t \in Texts :
        /\ \E who \in Sources : StateOf(Self, who) = "open"
        /\ rx' = [NoRx EXCEPT !.escaped = handleTextMessage(t).escaped, !.frame = t]
        /\ last' = [name |-> "message", src |-> "open", out |-> <<>>,
                    cb |-> handleTextMessage(t).calls]
        /\ UNCHANGED <<config, maxReconnectionAttempts, urlValid, onBroadcastReceived, ws, others,
                       reconnectionAttempts, isManualClose, timers, subscribedTokens,
                       tokenModes, failed>>

DecodeFrame == \E f \in Frames : BinaryMessage(f)

\* the constructor: config.maxReconnectionAttempts || 5
Constructed(configs) ==
    /\ config \in configs
    /\ maxReconnectionAttempts =
          IF config = <<>> \/ config[1] = 0 THEN DefaultMaxReconnectionAttempts
          ELSE config[1]
    /\ urlValid \in BOOLEAN
    /\ onBroadcastReceived = {}
    /\ ws = "null"
    /\ others = [st \in LiveStates |-> 0]
    /\ reconnectionAttempts = 0
    /\ isManualClose = FALSE
    /\ timers = 0
    /\ subscribedTokens = {}
    /\ tokenModes = [t \in RegTokens |-> NoMode]
    /\ last = [name |-> "new", src |-> "-", out |-> <<>>, cb |-> <<>>]
    /\ rx = NoRx
    /\ failed = FALSE

\* the connection manager alone runs every configured limit; with the
\* registry and the frames it runs the limits below the default
InitConn == Constructed(Configs)

Init == Constructed({<<c>> : c \in ConfigAttempts \ {0}})

Next ==
    \/ Connect
    \/ Disconnect
    \/ SockOpen
    \/ SockError
    \/ SockClose
    \/ TimerFire
    \/ SendLoginAfterConnect
    \/ Subscribe
    \/ Unsubscribe
    \/ SetMode
    \/ SubscribeWithMode
    \/ SockMessage

\* the decoder reads the frame and tokenModes only: its specification starts
\* connected (after connect() and the open event) and runs setMode and frames
Connected(callbacks) ==
    /\ config = <<>>
    /\ maxReconnectionAttempts = DefaultMaxReconnectionAttempts
    /\ urlValid = TRUE
    /\ onBroadcastReceived \in callbacks
    /\ ws = "open"
    /\ others = [st \in LiveStates |-> 0]
    /\ reconnectionAttempts = 0
    /\ isManualClose = FALSE
    /\ timers = 0
    /\ subscribedTokens = {}
    /\ tokenModes = [t \in RegTokens |-> NoMode]
    /\ last = [name |-> "open", src |-> "connecting", out |-> <<>>,
               cb |-> <<Call("onConnect", <<>>)>>]
    /\ rx = NoRx
    /\ failed = FALSE

\* the default callback () => {} returns for every tick
InitDecode == Connected({{}})

\* the application assigned a callback of its own
InitCallback == Connected(Callbacks)

NextDecode ==
    \/ SetMode
    \/ DecodeFrame

\* a call of Utils.getDecimalDivisor: last holds the identifier in src and
\* the divisor returned in out
GetDecimalDivisor ==
    \E i \in Identifiers :
        /\ last' = [name |-> "getDecimalDivisor", src |-> i,
                    out |-> <<getDecimalDivisor(i)>>, cb |-> <<>>]
        /\ UNCHANGED <<config, maxReconnectionAttempts, urlValid, onBroadcastReceived, ws, others,
                       reconnectionAttempts, isManualClose, timers, subscribedTokens,
                       tokenModes, rx, failed>>

NextUtils ==
    \/ GetDecimalDivisor

\* the registry: the connection manager, the application's calls and the
\* text frames, for one configured limit and a valid URL
InitReg ==
    /\ Constructed({<<1>>})
    /\ urlValid

NextReg ==
    \/ Connect
    \/ Disconnect
    \/ SockOpen
    \/ SockError
    \/ SockClose
    \/ TimerFire
    \/ SendLoginAfterConnect
    \/ Subscribe
    \/ Unsubscribe
    \/ SetMode
    \/ SubscribeWithMode
    \/ SockText

NextConn ==
    \/ Connect
    \/ Disconnect
    \/ SockOpen
    \/ SockError
    \/ SockClose
    \/ TimerFire

Spec == Init /\ [][Next]_vars

SpecConn == InitConn /\ [][NextConn]_vars

\* the reconnect timer expires: setTimeout runs its callback
LiveConn == SpecConn /\ WF_vars(TimerFire)

SpecDecode == InitDecode /\ [][NextDecode]_vars

SpecReg == InitReg /\ [][NextReg]_vars

SpecUtils == InitDecode /\ [][NextUtils]_vars

SpecCallback == InitCallback /\ [][NextDecode]_vars

-----------------------------------------------------------------------------
(* Claims *)

Invoked(l, f) == \E i \in DOMAIN l.cb : l.cb[i].f = f

SocketEvents == {"open", "message", "error", "close"}

\* C1: once the attempt counter has reached maxReconnectionAttempts, and
\* until the application calls connect() or disconnect() or the current
\* socket opens, no handler invokes onReconnecting, no handler schedules a
\* new socket, and isConnected() is false once the pending timers have run.
C1_NoAttemptAfterMax ==
    [][failed =>
         /\ ~Invoked(last', "onReconnecting")
         /\ timers' <= timers
         /\ (failed' /\ timers' = 0 => ws' # "open")]_vars

\* C2 as stated: a socket error event, or a close event of a socket that
\* disconnect() did not close, that occurs while the attempt counter is
\* below maxReconnectionAttempts increments the counter and invokes
\* onReconnecting with (new counter, maximum).
C2_Original ==
    [][(/\ \/ last'.name = "error"
           \/ last'.name = "close" /\ last'.src \notin {"closing", "aborted"}
        /\ reconnectionAttempts < maxReconnectionAttempts)
       => /\ reconnectionAttempts' = reconnectionAttempts + 1
          /\ last'.cb[Len(last'.cb)] =
                Call("onReconnecting",
                     <<reconnectionAttempts + 1, maxReconnectionAttempts>>)]_vars

\* C2 as amended: a socket error or close event that occurs while the
\* attempt counter is below maxReconnectionAttempts and the manual-close
\* flag is clear increments the counter by one, invokes onReconnecting with
\* (new counter, maximum) and starts the reconnect timer; and once an event
\* has started the timer, a new socket is opened by the timer unless
\* disconnect() sets the manual-close flag first.
C2_Reconnects ==
    /\ [][(/\ last'.name \in {"error", "close"}
           /\ reconnectionAttempts < maxReconnectionAttempts
           /\ ~isManualClose)
          => /\ reconnectionAttempts' = reconnectionAttempts + 1
             /\ last'.cb[Len(last'.cb)] =
                   Call("onReconnecting",
                        <<reconnectionAttempts + 1, maxReconnectionAttempts>>)
             /\ timers' = timers + 1]_vars
    /\ (last.name \in {"error", "close"} /\ Invoked(last, "onReconnecting"))
          ~> (isManualClose \/ (last.name = "timer" /\ ws = "connecting"))

\* the reconnect timer of an attempt has opened a new socket
C2_Witness ==
    /\ last.name = "timer"
    /\ ws = "connecting"
    /\ reconnectionAttempts > 0
    /\ ~isManualClose

\* C3: every socket-open event resets the attempt counter to 0, invokes
\* onConnect exactly once and sends nothing; no socket event or timer sends
\* a message, and a subscribe message listing identifiers is sent only by
\* subscribe() and sendLoginAfterConnect().
C3_OpenSendsNothing ==
    [][/\ last'.name = "open" =>
            /\ reconnectionAttempts' = 0
            /\ last'.cb = <<Call("onConnect", <<>>)>>
       /\ last'.name \in SocketEvents \cup {"timer"} => last'.out = <<>>
       /\ (\E i \in DOMAIN last'.out :
              last'.out[i].a = "subscribe" /\ last'.out[i].shape = "list")
            => last'.name \in {"subscribe", "sendLoginAfterConnect"}]_vars

\* a socket opened by the reconnect timer has opened while identifiers are
\* subscribed, and nothing was sent
C3_Witness ==
    /\ last.name = "open"
    /\ ws = "open"
    /\ others["errored"] > 0
    /\ subscribedTokens # {}
    /\ last.out = <<>>

\* C4: disconnect() leaves the manual-close flag set, this.ws null, the
\* subscribed set empty, the attempt counter 0 and the mode table as it was.
C4_Disconnect ==
    [][last'.name = "disconnect" =>
         /\ isManualClose'
         /\ ws' = "null"
         /\ ~isConnected(Self)'
         /\ subscribedTokens' = {}
         /\ reconnectionAttempts' = 0
         /\ tokenModes' = tokenModes]_vars

\* disconnect() has closed a socket during a reconnection, with modes set
C4_Witness ==
    /\ last.name = "disconnect"
    /\ others["closing"] > 0
    /\ timers > 0
    /\ tokenModes[T1] # NoMode

\* C5: socket events and the reconnect timer change neither the subscribed
\* set nor the mode table; the subscribed set changes only in subscribe,
\* unsubscribe, subscribeWithMode and disconnect; a mode entry is never
\* removed, and changes only in a setMode that names its identifier.
C5_RegistryFrame ==
    [][/\ last'.name \in SocketEvents \cup {"timer"} =>
            /\ subscribedTokens' = subscribedTokens
            /\ tokenModes' = tokenModes
       /\ subscribedTokens' # subscribedTokens =>
            last'.name \in {"subscribe", "unsubscribe", "subscribeWithMode", "disconnect"}
       /\ \A t \in RegTokens :
            /\ tokenModes[t] # NoMode => tokenModes'[t] # NoMode
            /\ tokenModes'[t] # tokenModes[t] =>
                  /\ last'.name = "setMode"
                  /\ last'.out # <<>> =>
                        /\ t \in Range(last'.out[1].v)
                        /\ tokenModes'[t] = last'.out[1].mode]_vars

\* the reconnect timer has opened a socket while identifiers are subscribed
\* and a mode is set
C5_Witness ==
    /\ last.name = "timer"
    /\ ws = "connecting"
    /\ subscribedTokens = {T1, T2}
    /\ tokenModes[T1] = "ltp"
    /\ tokenModes[T2] = NoMode

\* the identifier of the record that iteration i of the loop has read
RecOf(i) == rx.frame.recs[i]

Handled == last.name = "message"

SupportedLens == {8, 28, 32, 44, 184, 200}

\* the frame holds every payload byte of each of its records
Whole(f) == f.cut = 0

\* the raw 32-bit value the frames carry at byte q of the k-th record's payload
FieldAt(rec, k, q) ==
    PayloadByte(rec, k, q) * 16777216 + PayloadByte(rec, k, q + 1) * 65536
        + PayloadByte(rec, k, q + 2) * 256 + PayloadByte(rec, k, q + 3)

\* C6: a frame handled right after a mode request (setMode or
\* subscribeWithMode sent for mode m and identifiers ids) decodes every 32-,
\* 184- or 200-byte record of an identifier in ids in mode m: the tick's Mode
\* is m.
C6_Original ==
    [][(/\ last.name \in {"setMode", "subscribeWithMode"}
        /\ last.out # <<>>
        /\ last'.name = "message")
       => \A i \in DOMAIN rx'.iter :
            (/\ rx'.iter[i].len \in {32, 184, 200}
             /\ rx'.frame.recs[i].tok \in Range(last.out[1].v)
             /\ rx'.iter[i].tick # Null)
            => rx'.iter[i].tick.Mode = last.out[1].mode]_vars

\* C7: a frame of whole records of supported lengths delivers exactly one
\* tick per record.
C7_Original ==
    (/\ Handled
     /\ Whole(rx.frame)
     /\ \A i \in DOMAIN rx.frame.recs : rx.frame.recs[i].len \in SupportedLens)
    => Len(rx.calls) = Len(rx.frame.recs)

\* C8 as stated: the Mode of every tick emitted for a record of supported
\* length is the mode requested for its identifier, full when none was.
C8_Original ==
    Handled =>
        \A i \in DOMAIN rx.iter :
            (rx.iter[i].len \in SupportedLens /\ rx.iter[i].tick # Null)
            => rx.iter[i].tick.Mode = getTokenMode(tokenModes, RecOf(i).tok)

\* the Mode tag the decoder gives a record of length len whose identifier
\* has requested mode m
ModeTag(len, m) ==
    IF len = 8 THEN "ltp"
    ELSE IF len = 28 THEN "quote"
    ELSE IF len = 44 THEN (IF m = "ltp" THEN "ltp" ELSE "quote")
    ELSE m

\* C8 as amended: the Mode of a tick emitted for a 32-, 184- or 200-byte
\* record is the mode requested for its identifier, full when none was; an
\* 8-byte record always gives ltp, a 28-byte record always quote, and a
\* 44-byte record gives ltp when ltp was requested and quote otherwise.
C8_ModeTag ==
    Handled =>
        \A i \in DOMAIN rx.iter :
            (rx.iter[i].len \in SupportedLens /\ rx.iter[i].tick # Null)
            => rx.iter[i].tick.Mode =
                  ModeTag(rx.iter[i].len, getTokenMode(tokenModes, RecOf(i).tok))

\* one frame has given a 44-byte record in the default mode the tag quote and
\* a 184-byte record with ltp requested the tag ltp
C8_Witness ==
    /\ Handled
    /\ Len(rx.iter) = 2
    /\ rx.iter[1].len = 44 /\ tokenModes[RecOf(1).tok] = NoMode
    /\ rx.iter[1].tick # Null /\ rx.iter[1].tick.Mode = "quote"
    /\ rx.iter[2].len = 184 /\ tokenModes[RecOf(2).tok] = "ltp"
    /\ rx.iter[2].tick # Null /\ rx.iter[2].tick.Mode = "ltp"

LtpFields ==
    {"Mode", "InstrumentToken", "Tradable", "LastPrice", "LastQuantity",
     "AveragePrice", "Volume", "BuyQuantity", "SellQuantity", "Open", "High",
     "Low", "Close", "Change", "LastTradeTime", "OI", "OIDayHigh", "OIDayLow",
     "Timestamp"}

\* C9: with ltp the mode last set for its identifier, a 44-, 184- or
\* 200-byte record whose first 8 bytes are in the frame gives a tick, and
\* the tick has Mode ltp, the identifier, its tradability, the last price
\* (the 32-bit value at byte 4 over the identifier's divisor), 0 in every
\* other numeric field, null in both timestamps, and no depth, circuit-limit
\* or year high/low field.
C9_LtpShape ==
    Handled =>
        \A i \in DOMAIN rx.iter :
            (rx.iter[i].len \in {44, 184, 200} /\ tokenModes[RecOf(i).tok] = "ltp")
            => LET t == rx.iter[i].tick
                   tok == RecOf(i).tok
               IN  /\ rx.iter[i].off + 8 <= Len(Encode(rx.frame)) => t # Null
                   /\ t # Null =>
                        /\ DOMAIN t = LtpFields
                        /\ t.Mode = "ltp"
                        /\ t.InstrumentToken = tok
                        /\ t.Tradable = (tok % 256 # 9)
                        /\ t.LastPrice = [num |-> FieldAt(RecOf(i), i, 4), den |-> 100]
                        /\ \A f \in {"LastQuantity", "Volume", "BuyQuantity",
                                     "SellQuantity", "OI", "OIDayHigh", "OIDayLow"} :
                              t[f] = 0
                        /\ \A f \in {"AveragePrice", "Open", "High", "Low", "Close",
                                     "Change"} : t[f].num = 0
                        /\ t.LastTradeTime = Null
                        /\ t.Timestamp = Null

\* a whole 184-byte record of an identifier in ltp mode has given its tick
C9_Witness ==
    /\ Handled
    /\ Whole(rx.frame)
    /\ \E i \in DOMAIN rx.iter :
          /\ rx.iter[i].len = 184
          /\ tokenModes[RecOf(i).tok] = "ltp"
          /\ rx.iter[i].tick # Null
          /\ rx.iter[i].tick.LastPrice.num > 0

\* C10: no exception leaves the handler of a binary frame, and when a
\* record's declared length exceeds the bytes that remain, it is the last
\* record the loop reads: none after it is decoded or delivered.
C10_Overrun ==
    Handled =>
        /\ ~rx.escaped
        /\ \A i \in DOMAIN rx.iter :
              rx.iter[i].off + rx.iter[i].len > Len(Encode(rx.frame))
              => i = Len(rx.iter)
        /\ Len(rx.calls) <= Len(rx.iter)

\* the first of two declared records overran the frame and the loop stopped
C10_Witness ==
    /\ Handled
    /\ Len(rx.frame.recs) = 2
    /\ Len(rx.iter) = 1
    /\ rx.iter[1].off + rx.iter[1].len > Len(Encode(rx.frame))
    /\ ~rx.escaped

\* C11: subscribe and unsubscribe never change the mode table; and from every
\* state, setMode(m, [t]); subscribe([t]); unsubscribe([t]) leaves t out of
\* the subscribed set with m still the mode recorded for t.
C11_ModesKept ==
    /\ [][last'.name \in {"subscribe", "unsubscribe"} => tokenModes' = tokenModes]_vars
    /\ [](\A tokens \in TokenArgs :
            /\ subscribe(Self, tokens).tokenModes = tokenModes
            /\ unsubscribe(Self, tokens).tokenModes = tokenModes)
    /\ [](\A m \in Modes, t \in RegTokens :
            LET q == unsubscribe(subscribe(setMode(Self, m, <<t>>), <<t>>), <<t>>)
            IN  /\ t \notin q.subscribedTokens
                /\ q.tokenModes[t] = m)

\* unsubscribe([T1]) was sent for an identifier whose mode was set
C11_Witness ==
    /\ last.name = "unsubscribe"
    /\ last.out # <<>>
    /\ last.out[1].v = <<T1>>
    /\ T1 \notin subscribedTokens
    /\ tokenModes[T1] = "quote"

\* C12: for subscribe, unsubscribe, setMode and subscribeWithMode called with
\* a non-empty identifier list, the local mutation (the subscribed set gains
\* or loses the identifiers, the mode table records the mode) takes effect in
\* every state, whether or not the socket is open.
C12_Original ==
    \A tokens \in TokenLists \ {<<>>}, m \in Modes :
        /\ Range(tokens) \subseteq subscribe(Self, tokens).subscribedTokens
        /\ Range(tokens) \cap unsubscribe(Self, tokens).subscribedTokens = {}
        /\ \A t \in Range(tokens) : setMode(Self, m, tokens).tokenModes[t] = m
        /\ Range(tokens) \subseteq subscribeWithMode(Self, m, tokens).subscribedTokens

\* the arguments subscribe and unsubscribe reject
Misuse == {<<>>} \cup NonArrays

\* C13: subscribe or unsubscribe called with an empty list or with a value
\* that is no array returns normally and changes nothing (neither the
\* subscribed set nor the mode table) and sends nothing, in every state; a
\* subscribe or unsubscribe that sent nothing on an open socket changed
\* nothing.
C13_Misuse ==
    /\ [](\A tokens \in Misuse :
            /\ subscribe(Self, tokens) = Self
            /\ unsubscribe(Self, tokens) = Self)
    /\ [][(/\ last'.name \in {"subscribe", "unsubscribe"}
           /\ ws = "open"
           /\ last'.out = <<>>)
          => /\ subscribedTokens' = subscribedTokens
             /\ tokenModes' = tokenModes
             /\ last'.cb = <<>>]_vars

\* subscribe was misused on an open socket with identifiers subscribed and a
\* mode set
C13_Witness ==
    /\ last.name = "subscribe"
    /\ ws = "open"
    /\ last.out = <<>>
    /\ subscribedTokens = {T2}
    /\ tokenModes[T2] = "ltp"

\* C14: subscribe(ids) twice leaves the subscribed set that subscribe(ids)
\* once leaves; identifiers subscribed while the socket is not open are in
\* the set (nothing is sent), socket open, error and close events keep the
\* set, and sendLoginAfterConnect() on an open socket with a non-empty set
\* sends exactly one subscribe message, listing the set.
C14_Replay ==
    /\ [](\A ids \in TokenLists :
            subscribe(subscribe(Self, ids), ids).subscribedTokens
                = subscribe(Self, ids).subscribedTokens)
    /\ [](\A ids \in TokenLists \ {<<>>} :
            ~wsOpen(Self) =>
                /\ subscribe(Self, ids).subscribedTokens
                        = subscribedTokens \cup Range(ids)
                /\ subscribe(Self, ids).out = <<>>)
    /\ [][last'.name \in {"open", "error", "close"}
            => subscribedTokens' = subscribedTokens]_vars
    /\ [][(/\ last'.name = "sendLoginAfterConnect"
           /\ ws = "open"
           /\ subscribedTokens # {})
          => /\ Cardinality({i \in DOMAIN last'.out : last'.out[i].a = "subscribe"}) = 1
             /\ \A i \in DOMAIN last'.out :
                   last'.out[i].a = "subscribe"
                   => /\ last'.out[i].shape = "list"
                      /\ Range(last'.out[i].v) = subscribedTokens
                      /\ Len(last'.out[i].v) = Cardinality(subscribedTokens)]_vars

\* sendLoginAfterConnect() has replayed both identifiers on the socket of a
\* reconnection
C14_Witness ==
    /\ last.name = "sendLoginAfterConnect"
    /\ ws = "open"
    /\ others["errored"] > 0
    /\ subscribedTokens = {T1, T2}
    /\ Len(last.out) = 2
    /\ last.out[2].v = <<T1, T2>> \/ last.out[2].v = <<T2, T1>>

\* C15: in every state setMode(mode, ids) records mode for every identifier
\* in ids and keeps the other entries, leaves the subscribed set unchanged,
\* and sends exactly one message, the mode message for (mode, ids), when the
\* current socket is open and nothing when it is not.
C15_SetMode ==
    /\ [](\A mode \in Modes, ids \in TokenLists :
            LET q == setMode(Self, mode, ids)
            IN  /\ \A t \in RegTokens :
                      q.tokenModes[t] = IF t \in Range(ids) THEN mode ELSE tokenModes[t]
                /\ q.subscribedTokens = subscribedTokens
                /\ q.out = IF ws = "open" THEN <<Msg("mode", "pair", mode, ids)>>
                           ELSE <<>>)
    /\ [][last'.name = "setMode"
          => /\ subscribedTokens' = subscribedTokens
             /\ Len(last'.out) = IF ws = "open" THEN 1 ELSE 0
             /\ \A i \in DOMAIN last'.out :
                   /\ last'.out[i].a = "mode"
                   /\ \A t \in Range(last'.out[i].v) :
                         tokenModes'[t] = last'.out[i].mode]_vars

\* setMode has recorded a mode while the socket was still connecting, and
\* sent nothing
C15_Witness ==
    /\ last.name = "setMode"
    /\ ws = "connecting"
    /\ last.out = <<>>
    /\ tokenModes[T1] = "ltp"
    /\ tokenModes[T2] = NoMode
    /\ subscribedTokens = {T2}

\* C16: a text frame that is a JSON object of type order or trade makes
\* exactly one onOrderTradeReceived call, with the object's data member; any
\* other text frame (another type, no type, the JSON text null, text that is
\* not JSON) makes no call; no exception leaves the handler, nothing is sent,
\* and the connection state, the subscribed set and the mode table stay.
C16_TextFrame ==
    [][(last'.name = "message" /\ rx'.frame \in Texts)
       => /\ ~rx'.escaped
          /\ last'.cb =
                IF rx'.frame.syntax = "object" /\ rx'.frame.type \in {"order", "trade"}
                THEN <<Call("onOrderTradeReceived", <<rx'.frame.data>>)>>
                ELSE <<>>
          /\ last'.out = <<>>
          /\ UNCHANGED <<ws, others, reconnectionAttempts, isManualClose, timers,
                         subscribedTokens, tokenModes>>]_vars

\* a trade update was forwarded while identifiers are subscribed and a
\* reconnect timer is pending
C16_Witness ==
    /\ last.name = "message"
    /\ rx.frame \in Texts
    /\ rx.frame.type = "trade"
    /\ last.cb = <<Call("onOrderTradeReceived", <<"update">>)>>
    /\ subscribedTokens # {}
    /\ timers > 0

\* C17: the divisor of identifier i is 10000000 when i mod 256 = 3, 10000
\* when i mod 256 = 6 and 100 otherwise: it is one of the three values and
\* the same for every identifier with the same low byte.
C17_Divisor ==
    last.name = "getDecimalDivisor" =>
        LET i == last.src
            d == last.out[1]
        IN  /\ d = IF i % 256 = 3 THEN 10000000
                   ELSE IF i % 256 = 6 THEN 10000
                   ELSE 100
            /\ d \in {100, 10000, 10000000}
            /\ \A j \in Identifiers : j % 256 = i % 256 => getDecimalDivisor(j) = d

\* an identifier above 2^16 of segment 6 got the divisor 10000
C17_Witness ==
    /\ last.name = "getDecimalDivisor"
    /\ last.src % 256 = 6
    /\ last.src > 65536
    /\ last.out = <<10000>>

\* C18: every tick delivered carries the identifier of its record, and its
\* Tradable is false exactly when that identifier mod 256 is 9, for every
\* record length and requested mode.
C18_Tradable ==
    Handled =>
        /\ \A i \in DOMAIN rx.iter :
              rx.iter[i].tick # Null
              => /\ rx.iter[i].tick.InstrumentToken = RecOf(i).tok
                 /\ rx.iter[i].tick.Tradable = (RecOf(i).tok % 256 # 9)
        /\ \A j \in DOMAIN rx.calls :
              rx.calls[j].Tradable = (rx.calls[j].InstrumentToken % 256 # 9)

\* one frame gave a tradable tick and then, from a 184-byte record of an
\* index in quote mode, a tick that is not tradable
C18_Witness ==
    /\ Handled
    /\ Len(rx.calls) = 2
    /\ rx.calls[1].Tradable
    /\ ~rx.calls[2].Tradable
    /\ rx.iter[2].len = 184
    /\ rx.calls[2].Mode = "quote"

\* the offset in the frame of the payload of its i-th record
RECURSIVE WireOffset(_, _)
WireOffset(recs, i) ==
    IF i = 1 THEN 4 ELSE WireOffset(recs, i - 1) + recs[i - 1].len + 2

\* the records of the frame, by index, that gave a tick
Decoded == {i \in DOMAIN rx.iter : rx.iter[i].tick # Null}

\* C19: the loop reads the records of a frame in wire order (the i-th
\* iteration reads the i-th record, at its offset), every tick comes from the
\* bytes of its record, the ticks delivered are the ticks of the decodable
\* records in that order, and so the last tick delivered for an identifier
\* is the tick of the last decodable record of that identifier.
C19_WireOrder ==
    Handled =>
        /\ \A i \in DOMAIN rx.iter :
              /\ i <= Len(rx.frame.recs)
              /\ rx.iter[i].off = WireOffset(rx.frame.recs, i)
              /\ rx.iter[i].len = RecOf(i).len
              /\ i \in Decoded =>
                    /\ rx.iter[i].tick.InstrumentToken = RecOf(i).tok
                    /\ rx.iter[i].tick.LastPrice.num = FieldAt(RecOf(i), i, 4)
        /\ Len(rx.calls) = Cardinality(Decoded)
        /\ \E f \in [DOMAIN rx.calls -> Decoded] :
              /\ \A a, b \in DOMAIN rx.calls : a < b => f[a] < f[b]
              /\ \A j \in DOMAIN rx.calls : rx.calls[j] = rx.iter[f[j]].tick
        /\ \A t \in RegTokens :
              LET of == {i \in Decoded : RecOf(i).tok = t}
                  to == {j \in DOMAIN rx.calls : rx.calls[j].InstrumentToken = t}
              IN  of # {} =>
                    /\ to # {}
                    /\ LET i == CHOOSE x \in of : \A y \in of : y <= x
                           j == CHOOSE x \in to : \A y \in to : y <= x
                       IN  rx.calls[j] = rx.iter[i].tick

\* two records of one identifier gave two different ticks, the second one
\* delivered last
C19_Witness ==
    /\ Handled
    /\ Len(rx.calls) = 2
    /\ RecOf(1).tok = RecOf(2).tok
    /\ rx.calls[1] # rx.calls[2]
    /\ rx.calls[1] = rx.iter[1].tick
    /\ rx.calls[2] = rx.iter[2].tick

\* the limit N the application configured: the value given, 5 when omitted
ConfiguredLimit ==
    IF config = <<>> THEN DefaultMaxReconnectionAttempts ELSE config[1]

\* C20: for every configured value N >= 0 (5 when the option is omitted),
\* at most N onReconnecting calls are made between two resets of the attempt
\* counter: every call is the counter's increment by one and reports the new
\* count, the count never exceeds N, and the counter goes down only in a
\* socket open or disconnect().
C20_Original ==
    [][/\ \A i \in DOMAIN last'.cb :
             last'.cb[i].f = "onReconnecting"
             => /\ reconnectionAttempts' = reconnectionAttempts + 1
                /\ last'.cb[i].a[1] = reconnectionAttempts'
                /\ reconnectionAttempts' <= ConfiguredLimit
       /\ reconnectionAttempts' < reconnectionAttempts
             => last'.name \in {"open", "disconnect"}]_vars

\* the client holds no socket and no reconnect timer
NoSocket == ws = "null" /\ Live(Self) = 0 /\ timers = 0

\* what connect() may not change when the current socket is open
ClientState ==
    <<ws, others, reconnectionAttempts, isManualClose, timers, subscribedTokens,
      tokenModes>>

\* C21 as stated: a newly constructed client holds no socket and is not
\* connected, and stays so until connect() is called; connect() on an open
\* socket changes nothing and creates no socket; any other connect() clears
\* the manual-close flag and opens a socket.
C21_Original ==
    /\ [](last.name = "new" => NoSocket /\ ~isConnected(Self))
    /\ [][NoSocket /\ last'.name # "connect" => NoSocket' /\ ~isConnected(Self)']_vars
    /\ [][last'.name = "connect"
          => IF ws = "open"
             THEN UNCHANGED ClientState /\ last'.cb = <<>> /\ last'.out = <<>>
             ELSE /\ ~isManualClose'
                  /\ ws' = "connecting"
                  /\ Live(Self)' = Live(Self) + 1]_vars

\* C21 as amended: as stated, except that a connect() whose socket cannot be
\* constructed (new WebSocket throws) clears the manual-close flag, creates
\* no socket and starts the reconnection schedule instead.
C21_Connect ==
    /\ [](last.name = "new" => NoSocket /\ ~isConnected(Self))
    /\ [][NoSocket /\ last'.name # "connect" => NoSocket' /\ ~isConnected(Self)']_vars
    /\ [][last'.name = "connect"
          => IF ws = "open"
             THEN UNCHANGED ClientState /\ last'.cb = <<>> /\ last'.out = <<>>
             ELSE /\ ~isManualClose'
                  /\ IF urlValid
                     THEN /\ ws' = "connecting"
                          /\ Live(Self)' = Live(Self) + 1
                          /\ UNCHANGED <<timers, reconnectionAttempts>>
                     ELSE /\ UNCHANGED <<ws, others>>
                          /\ reconnectionAttempts < maxReconnectionAttempts
                                => /\ timers' = timers + 1
                                   /\ Invoked(last', "onReconnecting")]_vars

\* connect() after disconnect() has cleared the flag and opened a socket
\* while the socket disconnect() closed is still closing
C21_Witness ==
    /\ last.name = "connect"
    /\ ws = "connecting"
    /\ others["closing"] > 0
    /\ ~isManualClose

\* the bytes of the frame from the payload of the record of iteration i on
Remaining(i) == Len(Encode(rx.frame)) - rx.iter[i].off

\* the record of iteration i is cut short by the end of the frame
Truncated(i) == rx.iter[i].len > Remaining(i)

\* the mode requested for the identifier of the record of iteration i
ModeOf(i) == getTokenMode(tokenModes, RecOf(i).tok)

\* the bytes, from the start of a record, that decoding it touches
Needed(len, m) ==
    IF len \in {8, 28, 32} THEN len
    ELSE IF m = "ltp" THEN 8
    ELSE IF m = "quote" THEN 44
    ELSE IF len = 44 THEN 44
    ELSE 200

UpToEnd(i) ==
    LET data == Encode(rx.frame)
        end == rx.iter[i].off + rx.iter[i].len
    IN  SubSeq(data, 1, IF end < Len(data) THEN end ELSE Len(data))

\* C23: every field of an emitted tick is read from bytes inside its own
\* record: the tick is the one the decoder gives when the buffer ends where
\* the record ends, also for a 184-byte record in full mode that is followed
\* by another record.
C23_Original ==
    Handled =>
        \A i \in DOMAIN rx.iter :
            rx.iter[i].tick # Null
            => rx.iter[i].tick =
                  parseTickData(UpToEnd(i), rx.iter[i].off, rx.iter[i].len, tokenModes)

\* the tick of the record of iteration i in a frame that holds the bytes
\* from its length prefix on and nothing before them
Alone(i) ==
    LET data == Encode(rx.frame)
        rest == U16(1) \o SubSeq(data, rx.iter[i].off - 1, Len(data))
    IN  handleBinaryMessage(rest, tokenModes).iter[1].tick

\* the frame holds every byte of its j-th record
Present(j) ==
    WireOffset(rx.frame.recs, j) + rx.frame.recs[j].len <= Len(Encode(rx.frame))

\* C24: a record whose declared length is not 8, 28, 32, 44, 184 or 200
\* gives no tick and does not abort the frame: no exception leaves the
\* handler, the next record is read at the offset advanced by the declared
\* length, and every later record whose bytes are present is decoded as it
\* is in a frame that has no record before it.
C24_Unsupported ==
    Handled =>
        /\ \A i \in DOMAIN rx.iter :
              rx.iter[i].len \notin SupportedLens
              => /\ rx.iter[i].tick = Null
                 /\ i + 1 \in DOMAIN rx.iter
                       => rx.iter[i + 1].off = rx.iter[i].off + rx.iter[i].len + 2
        /\ \A j \in DOMAIN rx.frame.recs :
              (/\ \E i \in 1..(j - 1) : rx.frame.recs[i].len \notin SupportedLens
               /\ Present(j))
              => /\ ~rx.escaped
                 /\ j \in DOMAIN rx.iter
                 /\ rx.iter[j].len = rx.frame.recs[j].len
                 /\ rx.iter[j].tick = Alone(j)

\* a 5-byte record gave no tick and the 8-byte record after it gave its own
C24_Witness ==
    /\ Handled
    /\ Len(rx.iter) = 2
    /\ rx.iter[1].len = 5
    /\ rx.iter[1].tick = Null
    /\ rx.iter[2].len = 8
    /\ rx.iter[2].tick # Null
    /\ rx.iter[2].tick.InstrumentToken = RecOf(2).tok
    /\ rx.calls = <<rx.iter[2].tick>>

\* C25: a frame with record count 0 delivers no tick; a record of declared
\* length 0 delivers no tick and consumes its 2-byte length prefix and
\* nothing more, so the record after it, when its length prefix is in the
\* frame, is read at the next two bytes and, when it is a whole 8-byte
\* record, gives its tick.
C25_Empty ==
    Handled =>
        /\ rx.frame.recs = <<>> => (rx.calls = <<>> /\ rx.iter = <<>>)
        /\ \A i \in DOMAIN rx.iter :
              rx.iter[i].len = 0
              => /\ rx.iter[i].tick = Null
                 /\ (i < Len(rx.frame.recs) /\ rx.iter[i].off + 2 <= Len(Encode(rx.frame)))
                       => /\ i + 1 \in DOMAIN rx.iter
                          /\ rx.iter[i + 1].off = rx.iter[i].off + 2
                          /\ rx.iter[i + 1].len = RecOf(i + 1).len
                          /\ (rx.iter[i + 1].len = 8 /\ Present(i + 1))
                                => /\ rx.iter[i + 1].tick # Null
                                   /\ rx.iter[i + 1].tick.InstrumentToken
                                         = RecOf(i + 1).tok
                                   /\ rx.iter[i + 1].tick.LastPrice.num
                                         = FieldAt(RecOf(i + 1), i + 1, 4)

\* an empty record came first and the 8-byte record after it gave the only tick
C25_Witness ==
    /\ Handled
    /\ Whole(rx.frame)
    /\ Len(rx.iter) = 2
    /\ rx.iter[1].len = 0
    /\ rx.iter[1].off = 4
    /\ rx.iter[2].off = 6
    /\ Len(rx.calls) = 1
    /\ rx.calls[1].InstrumentToken = RecOf(2).tok

\* the depth entry the frames carry at byte q of the k-th record's payload:
\* quantity, price over the divisor, 16-bit order count
DepthAt(rec, k, q) ==
    [Quantity |-> FieldAt(rec, k, q),
     Price |-> [num |-> FieldAt(rec, k, q + 4), den |-> getDecimalDivisor(rec.tok)],
     Orders |-> PayloadByte(rec, k, q + 8) * 256 + PayloadByte(rec, k, q + 9)]

\* C26: a 184- or 200-byte record, all in the frame, whose identifier has
\* requested mode full or none gives a tick with Mode full, five bid entries
\* from byte 64 and five ask entries from byte 124 in wire order (quantity,
\* price over the identifier's divisor, 16-bit order count), and upper
\* circuit, lower circuit, year high and year low over the same divisor.
C26_Original ==
    Handled =>
        \A i \in DOMAIN rx.iter :
            (/\ rx.iter[i].len \in {184, 200}
             /\ ModeOf(i) = "full"
             /\ Present(i))
            => LET t == rx.iter[i].tick
                   d == getDecimalDivisor(RecOf(i).tok)
               IN  /\ t # Null
                   /\ t.Mode = "full"
                   /\ t.Bids = [n \in 1..5 |-> DepthAt(RecOf(i), i, 64 + 12 * (n - 1))]
                   /\ t.Offers = [n \in 1..5 |-> DepthAt(RecOf(i), i, 124 + 12 * (n - 1))]
                   /\ \A f \in {"UpperCircuit", "LowerCircuit", "YearHigh", "YearLow"} :
                         t[f].den = d

\* the fields of the 44-byte layout, with the tag, identifier and tradability
QuoteLayout ==
    {"Mode", "InstrumentToken", "Tradable", "LastPrice", "LastQuantity",
     "AveragePrice", "Volume", "BuyQuantity", "SellQuantity", "Open", "High",
     "Low", "Close"}

\* C27: with quote the mode last set for its identifier, a 44-, 184- or
\* 200-byte record whose first 44 bytes are in the frame gives a tick; the
\* tick has Mode quote and exactly the fields of the 44-byte layout (last
\* price at byte 4, last quantity 8, average price 12, volume 16, buy and
\* sell quantity 20 and 24, open 28, high 32, low 36, close 40, prices over
\* the divisor), no timestamp, open-interest, depth or circuit field, and is
\* the tick decoded from a buffer that ends after the record's first 44 bytes.
C27_QuoteShape ==
    Handled =>
        \A i \in DOMAIN rx.iter :
            (rx.iter[i].len \in {44, 184, 200} /\ tokenModes[RecOf(i).tok] = "quote")
            => LET t == rx.iter[i].tick
                   rec == RecOf(i)
                   d == getDecimalDivisor(rec.tok)
                   data == Encode(rx.frame)
                   at(q) == FieldAt(rec, i, q)
               IN  /\ rx.iter[i].off + 44 <= Len(data) => t # Null
                   /\ t # Null =>
                        /\ DOMAIN t = QuoteLayout
                        /\ t.Mode = "quote"
                        /\ t.InstrumentToken = rec.tok
                        /\ t.Tradable = (rec.tok % 256 # 9)
                        /\ t.LastPrice = [num |-> at(4), den |-> d]
                        /\ t.LastQuantity = at(8)
                        /\ t.AveragePrice = [num |-> at(12), den |-> d]
                        /\ t.Volume = at(16)
                        /\ t.BuyQuantity = at(20)
                        /\ t.SellQuantity = at(24)
                        /\ t.Open = [num |-> at(28), den |-> d]
                        /\ t.High = [num |-> at(32), den |-> d]
                        /\ t.Low = [num |-> at(36), den |-> d]
                        /\ t.Close = [num |-> at(40), den |-> d]
                        /\ t = parseTickData(SubSeq(data, 1, rx.iter[i].off + 44),
                                             rx.iter[i].off, rx.iter[i].len, tokenModes)

\* a whole 200-byte record of an identifier in quote mode gave a quote tick
C27_Witness ==
    /\ Handled
    /\ \E i \in DOMAIN rx.iter :
          /\ rx.iter[i].len = 200
          /\ tokenModes[RecOf(i).tok] = "quote"
          /\ Present(i)
          /\ rx.iter[i].tick # Null
          /\ rx.iter[i].tick.Mode = "quote"
          /\ rx.iter[i].tick.Close.num > 0

\* the fields of the quote tick of a 32-byte record
IndexQuoteLayout ==
    {"Mode", "InstrumentToken", "Tradable", "LastPrice", "High", "Low", "Open",
     "Close", "Change"}

\* C28: a 32-byte record that is all in the frame gives a tick shaped by the
\* mode requested for its identifier.  With quote: Mode quote, last price
\* (byte 4), high (8), low (12), open (16) and close (20) over the divisor,
\* Change = LastPrice - Close, and no timestamp.  With ltp: only the tag,
\* identifier, tradability and last price.  Otherwise: Mode full, the same
\* fields as with quote, and a timestamp 315532800 s (1980-01-01T00:00:00Z)
\* plus the 32-bit seconds value at byte 28.
C28_Index ==
    Handled =>
        \A i \in DOMAIN rx.iter :
            (rx.iter[i].len = 32 /\ Present(i))
            => LET t == rx.iter[i].tick
                   rec == RecOf(i)
                   d == getDecimalDivisor(rec.tok)
                   at(q) == FieldAt(rec, i, q)
                   prices ==
                       /\ t.LastPrice = [num |-> at(4), den |-> d]
                       /\ t.High = [num |-> at(8), den |-> d]
                       /\ t.Low = [num |-> at(12), den |-> d]
                       /\ t.Open = [num |-> at(16), den |-> d]
                       /\ t.Close = [num |-> at(20), den |-> d]
                       /\ t.Change = [num |-> at(4) - at(20), den |-> d]
               IN  /\ t # Null
                   /\ t.InstrumentToken = rec.tok
                   /\ t.Tradable = (rec.tok % 256 # 9)
                   /\ t.Mode = ModeOf(i)
                   /\ ModeOf(i) = "quote" => (DOMAIN t = IndexQuoteLayout /\ prices)
                   /\ ModeOf(i) = "ltp" =>
                        /\ DOMAIN t = {"Mode", "InstrumentToken", "Tradable", "LastPrice"}
                        /\ t.LastPrice = [num |-> at(4), den |-> d]
                   /\ ModeOf(i) = "full" =>
                        /\ DOMAIN t = IndexQuoteLayout \cup {"Timestamp"}
                        /\ prices
                        /\ t.Timestamp = [epochSeconds |-> 315532800 + at(28)]

\* a whole 32-byte record in the default mode gave a full tick with a
\* timestamp after 1980-01-01 and a change that is not 0
C28_Witness ==
    /\ Handled
    /\ \E i \in DOMAIN rx.iter :
          /\ rx.iter[i].len = 32
          /\ tokenModes[RecOf(i).tok] = NoMode
          /\ rx.iter[i].tick # Null
          /\ rx.iter[i].tick.Mode = "full"
          /\ rx.iter[i].tick.Timestamp.epochSeconds > 315532800
          /\ rx.iter[i].tick.Change.num # 0

\* C29: an 8-byte record that is all in the frame gives a tick with Mode
\* ltp and only the identifier, the tradability flag and LastPrice = the
\* 32-bit big-endian value at byte 4 over the identifier's divisor, whatever
\* mode is requested for the identifier; identifier 408065 with raw price
\* 250050 gives LastPrice 250050/100 = 2500.50 and Tradable true.
C29_Broadcast ==
    Handled =>
        \A i \in DOMAIN rx.iter :
            (rx.iter[i].len = 8 /\ Present(i))
            => LET t == rx.iter[i].tick
                   rec == RecOf(i)
                   data == Encode(rx.frame)
                   o == rx.iter[i].off
                   raw == data[o + 5] * 16777216 + data[o + 6] * 65536
                            + data[o + 7] * 256 + data[o + 8]
               IN  /\ t # Null
                   /\ DOMAIN t = {"InstrumentToken", "Mode", "LastPrice", "Tradable"}
                   /\ t.Mode = "ltp"
                   /\ t.InstrumentToken = rec.tok
                   /\ t.Tradable = (rec.tok % 256 # 9)
                   /\ t.LastPrice = [num |-> raw, den |-> getDecimalDivisor(rec.tok)]
                   /\ (rec.tok = 408065 /\ raw = 250050)
                         => /\ t.LastPrice = [num |-> 250050, den |-> 100]
                            /\ t.Tradable

\* the 8-byte record of identifier 408065 with raw price 250050 gave an ltp
\* tick of 250050/100 while quote was the mode requested for the identifier
C29_Witness ==
    /\ Handled
    /\ Len(rx.iter) >= 1
    /\ rx.iter[1].len = 8
    /\ RecOf(1).tok = 408065
    /\ tokenModes[408065] = "quote"
    /\ rx.iter[1].tick # Null
    /\ rx.iter[1].tick.Mode = "ltp"
    /\ rx.iter[1].tick.LastPrice = [num |-> 250050, den |-> 100]
    /\ rx.iter[1].tick.Tradable

\* the Mode of the tick the decoder gives a whole 32-byte record of
\* identifier t under the mode table modes
DecodedMode(modes, t) ==
    handleBinaryMessage(Encode([recs |-> <<[len |-> 32, tok |-> t]>>, cut |-> 0]),
                        modes).iter[1].tick.Mode

\* C30: subscribeWithMode(mode, ids) never changes the mode table, in any
\* state and whatever its arguments; after it the decoder uses for each
\* identifier of ids the mode the last setMode recorded (full when none),
\* also when that is not the mode just sent to the server.
C30_TableKept ==
    /\ [][last'.name = "subscribeWithMode" => tokenModes' = tokenModes]_vars
    /\ [](\A mode \in Modes, tokens \in TokenLists :
            LET q == subscribeWithMode(Self, mode, tokens)
            IN  /\ q.tokenModes = tokenModes
                /\ \A t \in Range(tokens) :
                      getTokenMode(q.tokenModes, t) = getTokenMode(tokenModes, t))
    /\ [](\A m, mode \in Modes, t \in RegTokens :
            subscribeWithMode(setMode(Self, m, <<t>>), mode, <<t>>).tokenModes[t] = m)
    /\ [](\A t \in RegTokens : DecodedMode(tokenModes, t) = getTokenMode(tokenModes, t))

\* subscribeWithMode sent ltp for an identifier whose recorded mode is quote,
\* and the decoder still gives quote
C30_Witness ==
    /\ last.name = "subscribeWithMode"
    /\ last.out # <<>>
    /\ last.out[1].mode = "ltp"
    /\ T1 \in Range(last.out[1].v)
    /\ T1 \in subscribedTokens
    /\ tokenModes[T1] = "quote"
    /\ DecodedMode(tokenModes, T1) = "quote"

\* C31: sendLoginAfterConnect() on an open socket sends the LOGIN text first
\* and then, when the subscribed set is not empty, exactly one subscribe
\* message listing exactly the subscribed set, and never a mode message,
\* whatever the mode table holds; it changes no field.  When the socket is
\* not open it sends nothing and changes nothing.
C31_Login ==
    LET q == sendLoginAfterConnect(Self)
        expected ==
            IF ws # "open" THEN <<>>
            ELSE IF subscribedTokens = {} THEN <<Msg("LOGIN", "text", "-", <<>>)>>
            ELSE <<Msg("LOGIN", "text", "-", <<>>),
                   Msg("subscribe", "list", "-", SetToSeq(subscribedTokens))>>
    IN  /\ q.out = expected
        /\ [q EXCEPT !.out = <<>>] = Self
        /\ \A i \in DOMAIN q.out : q.out[i].a # "mode"
        /\ Len(q.out) = 2 =>
              /\ Range(q.out[2].v) = subscribedTokens
              /\ Len(q.out[2].v) = Cardinality(subscribedTokens)
        /\ last.name = "sendLoginAfterConnect" => (last.out = expected /\ last.cb = <<>>)

\* sendLoginAfterConnect() sent LOGIN and one subscribe message for the one
\* subscribed identifier while a mode was recorded for it
C31_Witness ==
    /\ last.name = "sendLoginAfterConnect"
    /\ ws = "open"
    /\ subscribedTokens = {T1}
    /\ tokenModes[T1] = "quote"
    /\ Len(last.out) = 2
    /\ last.out[1].a = "LOGIN"
    /\ last.out[2].a = "subscribe"
    /\ last.out[2].v = <<T1>>

\* C32: in every reachable state the attempt counter is between 0 and
\* maxReconnectionAttempts, and every onReconnecting call of the handler
\* that ran last received an attempt number between 1 and
\* maxReconnectionAttempts, with maxReconnectionAttempts as its second
\* argument.
C32_CounterRange ==
    /\ reconnectionAttempts \in 0..maxReconnectionAttempts
    /\ \A i \in DOMAIN last.cb :
          last.cb[i].f = "onReconnecting"
          => /\ last.cb[i].a[1] \in 1..maxReconnectionAttempts
             /\ last.cb[i].a[2] = maxReconnectionAttempts

\* the error event that used the last attempt: onReconnecting received the
\* maximum
C32_Witness ==
    /\ last.name = "error"
    /\ maxReconnectionAttempts = 2
    /\ reconnectionAttempts = maxReconnectionAttempts
    /\ \E i \in DOMAIN last.cb :
          /\ last.cb[i].f = "onReconnecting"
          /\ last.cb[i].a[1] = maxReconnectionAttempts

\* the sockets that delivered an error event and no close event yet
Errored ==
    (IF ws \in {"errored", "aborted"} THEN 1 ELSE 0)
        + others["errored"] + others["aborted"]

\* C33: one loss of a connection uses one attempt: when a socket's error
\* event has incremented the counter, invoked onReconnecting and scheduled a
\* timer, the close event of the same socket that follows increments
\* nothing, invokes no onReconnecting and schedules no timer.
C33_Original ==
    [][(/\ last.name = "error"
        /\ Invoked(last, "onReconnecting")
        /\ Errored = 1
        /\ last'.name = "close"
        /\ last'.src \in {"errored", "aborted"})
       => /\ reconnectionAttempts' = reconnectionAttempts
          /\ timers' = timers
          /\ ~Invoked(last', "onReconnecting")]_vars

\* C34: under every interleaving of connect(), disconnect(), socket events
\* and timer expiries, a socket that is connecting or open is the current
\* one: no socket the client no longer refers to is connecting or open.
C34_Original == others["connecting"] + others["open"] = 0

\* C35: disconnect() sets the manual-close flag, and while it is set (until
\* the next connect() call) no handler creates a socket, invokes
\* onReconnecting or schedules a timer, also when a reconnect timer expires
\* or a socket delivers its error and close events after disconnect().
C35_Quiet ==
    /\ [](last.name = "disconnect" => (isManualClose /\ ws = "null"))
    /\ [][(isManualClose /\ last'.name # "connect")
            => /\ isManualClose'
               /\ ws' = "null"
               /\ Live(Self)' <= Live(Self)
               /\ timers' <= timers
               /\ ~Invoked(last', "onReconnecting")]_vars

\* the reconnect timer that was pending at disconnect() expired and created
\* nothing, while the closed socket had still to deliver its close event
C35_Witness ==
    /\ last.name = "timer"
    /\ isManualClose
    /\ ws = "null"
    /\ timers = 0
    /\ others["closing"] + others["aborted"] > 0

\* C36: whenever the manual-close flag is set the client holds no current
\* socket and isConnected() is false; and a handler that creates a socket
\* leaves the flag clear, so a socket is created only while it is clear.
C36_FlagAndSocket ==
    /\ [](isManualClose => (ws = "null" /\ ~isConnected(Self)))
    /\ [][Live(Self)' > Live(Self)
            => (~isManualClose' /\ last'.name \in {"connect", "timer"})]_vars
    /\ [][(last'.name = "timer" /\ Live(Self)' > Live(Self)) => ~isManualClose]_vars

\* disconnect() dropped the current socket: the flag is set, no current socket
C36_Witness ==
    /\ last.name = "disconnect"
    /\ isManualClose
    /\ ws = "null"
    /\ ~isConnected(Self)
    /\ others["closing"] = 1
    /\ timers = 0

\* what the application's send paths write in the current state, for every
\* argument
Writes ==
    {sendLoginAfterConnect(Self).out}
        \cup {subscribe(Self, tokens).out : tokens \in TokenArgs}
        \cup {unsubscribe(Self, tokens).out : tokens \in TokenArgs}
        \cup {setMode(Self, m, tokens).out : m \in Modes, tokens \in TokenLists}
        \cup {subscribeWithMode(Self, m, tokens).out : m \in Modes, tokens \in TokenLists}

\* C37: no message (LOGIN, subscribe, unsubscribe, mode, subscribe with
\* mode) is sent unless the current socket is open when it is sent: in every
\* state where it is not open every send path writes nothing, a handler that
\* sent a message ran with the current socket open, and the handlers of
\* connect(), disconnect(), the socket events and the timer send nothing.
C37_SendsOnlyOpen ==
    /\ ws # "open" => Writes = {<<>>}
    /\ last.out # <<>> => ws = "open"
    /\ last.name \in {"new", "connect", "disconnect", "open", "error", "close",
                       "timer", "message"}
          => last.out = <<>>

\* subscribe([T1]) was called while the current socket was connecting, with
\* an earlier socket still open: nothing was sent
C37_Witness ==
    /\ last.name = "subscribe"
    /\ T1 \in subscribedTokens
    /\ ws = "connecting"
    /\ others["open"] = 1
    /\ last.out = <<>>

\* C38: after a connect() call that opened a socket the reconnection budget
\* is available: when that socket fails before opening, its error event
\* invokes onReconnecting and schedules a reconnect timer, also when the
\* attempt counter was at maxReconnectionAttempts when connect() was called.
C38_Original ==
    [][(/\ last.name = "connect"
        /\ ws = "connecting"
        /\ last'.name = "error"
        /\ last'.src = "connecting"
        /\ ws' = "errored")
       => /\ Invoked(last', "onReconnecting")
          /\ timers' = timers + 1]_vars

\* C39: an exception of the application's onBroadcastReceived callback for
\* one record's tick does not leave the message handler and does not stop
\* the frame: every record that is all in the frame is still read, and
\* every tick decoded is delivered.
C39_Original ==
    Handled =>
        /\ ~rx.escaped
        /\ \A j \in DOMAIN rx.frame.recs : Present(j) => j \in DOMAIN rx.iter
        /\ Len(rx.calls) = Cardinality(Decoded)

====
